---- MODULE Spec2Model ----
(***************************************************************************)
(* Live Azaan: the broadcaster's LiveStreamSender session and its worker   *)
(* (stream_sender.py), the listener's PriorityManager (priority.py) and    *)
(* the listener coordinator of LiveAzaanApp (main.py).                     *)
(***************************************************************************)
EXTENDS Integers, Sequences, FiniteSets

\* ------------------------------------------------------------------ bounds
\* Threads one session may spawn in a run (start() is cut off beyond it).
MaxWorkers == 2

\* Priority values run over 1..MaxPriority.
MaxPriority == 2

\* Receivers the application may construct in a run.
MaxReceivers == 2

\* Senders the application may construct in a run.
MaxSenders == 2

\* Where the per-thread counters of connection attempts and late sends stop
\* counting.
MaxCount == 2

\* Threads that call start() on one session at the same time.
MaxCallers == 2

\* The longest energy-gate input, in samples, and the longest neural input,
\* in frames.
MaxSamples == 2

MaxFrames == 2

\* How far the clock of the authentication runs goes, and the longest token
\* lifetime a provider answer names, in ticks.
MaxTime == 3

MaxLifetime == 2

\* _authenticate / _refresh_token: the lifetime taken when the answer names
\* none ("3600").
DefaultLifetime == 3600

\* NoiseReducer.__init__: sample_width and gate_threshold defaults.
SampleWidth == 2

GateThreshold == 350

\* _reduce_rnnoise: frame_size = 480 * self.sample_width.
FrameSamples == 480

\* --------------------------------------------------------------- variables
VARIABLES
    _running,      \* LiveStreamSender._running
    _thread,       \* LiveStreamSender._thread: None or the last spawned worker
    workers,       \* every thread the session spawned, in spawn order
    callerPc,      \* where the calling thread is: "idle" or inside stop()'s join
    lastCall,      \* what the caller's most recent start()/stop() did
    callers,       \* where each of the concurrent callers of start() is
    priority_list, \* PriorityManager.priority_list
    lastOp,        \* the most recent PriorityManager call, its arguments and result
    stream_status, \* LiveAzaanScreen.stream_status
    receivers,     \* every LiveStreamReceiver the application constructed
    receiver,      \* LiveAzaanApp.receiver: None or the last one constructed
    current_sound, \* OfflineAzaanPlayer.current_sound
    playing,       \* how many loaded sounds are sounding (play() without stop())
    senders,       \* every LiveStreamSender the application constructed
    sender,        \* LiveAzaanApp.sender: None or the last one constructed
    user_role,     \* LiveAzaanApp.user_role
    lastEvent,     \* what the application's most recent handler did
    _rn,           \* NoiseReducer._rn: TRUE when the rnnoise backend was loaded
    audio_data,    \* the chunk handed to reduce_noise, as a sequence of bytes
    cleaned,       \* what reduce_noise returned
    lastAudio,     \* what the most recent reduce_noise call did
    session,       \* AuthManager.session: Nothing or Some(AuthSession)
    now,           \* datetime.now(timezone.utc), in ticks
    lastAuth       \* what the most recent AuthManager call did

senderVars == <<_running, _thread, workers, callerPc, lastCall, callers>>
registryVars == <<priority_list, lastOp>>
castVars == <<senders, sender, user_role>>
appVars == <<stream_status, receivers, receiver, current_sound, playing, castVars, lastEvent>>
noiseVars == <<_rn, audio_data, cleaned, lastAudio>>
authVars == <<session, now, lastAuth>>
vars == <<senderVars, registryVars, appVars, noiseVars, authVars>>

None == 0

\* ------------------------------------------------- LiveStreamSender: state
\* A freshly spawned thread, before the first statement of _run_stream.
\* What the far end of a connection offers: a certificate that chains to
\* the trust anchor or not, that names the target host or not, and a
\* handshake that otherwise completes or not.
Peers == [cert_valid : BOOLEAN, name_matches : BOOLEAN, completes : BOOLEAN]

NoPeer == [cert_valid |-> FALSE, name_matches |-> FALSE, completes |-> FALSE]

\* peer is the far end the thread's TLS socket was wrapped against; streamed
\* says that the thread has read a chunk from the device.
NewWorker ==
    [pc |-> "PyAudio", pa |-> "none", mic |-> "none", sock |-> "none", cause |-> "none",
     conns |-> 0, late |-> 0, peer |-> NoPeer, streamed |-> FALSE]

\* conns counts the thread's calls of create_connection; late counts its
\* sendall calls with the running flag clear since its loop test last found
\* the flag set.
Count(n) == IF n < MaxCount THEN n + 1 ELSE n

\* The threads that are still alive.
ActiveWorkers == {w \in 1..Len(workers) : workers[w].pc # "dead"}

\* __init__: not running, no thread.
SenderInit ==
    /\ _running = FALSE
    /\ _thread = None
    /\ workers = <<>>
    /\ callerPc = "idle"
    /\ lastCall = [op |-> "none", first |-> FALSE, spawned |-> FALSE, result |-> "none"]
    /\ callers = [c \in 1..MaxCallers |-> "idle"]

\* ------------------------------------------------ LiveStreamSender.start()
\* Faulty variant of StartSpawns: "if self._running: return" is missing.
StartSpawnsUnguarded(r) == TRUE

\* start() goes on to spawn exactly when the running flag is clear.
StartSpawns(r) == ~r

start ==
    /\ callerPc = "idle"
    /\ IF StartSpawns(_running)
         THEN /\ Len(workers) < MaxWorkers
              /\ _running' = TRUE
              /\ workers' = Append(workers, NewWorker)
              /\ _thread' = Len(workers) + 1
         ELSE UNCHANGED <<_running, workers, _thread>>
    /\ lastCall' = [op |-> "start", first |-> (lastCall.op = "none"),
                    spawned |-> StartSpawns(_running), result |-> "returned"]
    /\ UNCHANGED <<callerPc, callers>>
    /\ UNCHANGED <<registryVars, appVars, noiseVars, authVars>>

\* ------------------------------------------------- LiveStreamSender.stop()
\* Faulty variant of StopJoins: "if self._thread:" is missing.
StopJoinsAlways(t) == TRUE

\* stop() joins only when a thread was ever spawned.
StopJoins(t) == t # None

\* self._running = False, then the join begins (or stop() returns at once).
stop ==
    /\ callerPc = "idle"
    /\ _running' = FALSE
    /\ callerPc' = IF StopJoins(_thread) THEN "joining" ELSE "idle"
    /\ lastCall' = [op |-> "stop", first |-> (lastCall.op = "none"), spawned |-> FALSE,
                    result |-> IF StopJoins(_thread) THEN "joining" ELSE "returned"]
    /\ UNCHANGED <<_thread, workers, callers>>
    /\ UNCHANGED <<registryVars, appVars, noiseVars, authVars>>

\* Faulty variant of JoinReturns: join() without its timeout.
JoinReturnsUnbounded(alive, timedOut) == ~alive

\* self._thread.join(timeout=2) returns when the thread has ended or the
\* two seconds are over.
JoinReturns(alive, timedOut) == ~alive \/ timedOut

ThreadAlive(t) == t \in ActiveWorkers

stop_join ==
    /\ callerPc = "joining"
    /\ \E timedOut \in BOOLEAN : JoinReturns(ThreadAlive(_thread), timedOut)
    /\ callerPc' = "idle"
    /\ lastCall' = [lastCall EXCEPT !.result = "returned"]
    /\ UNCHANGED <<_running, _thread, workers, callers>>
    /\ UNCHANGED <<registryVars, appVars, noiseVars, authVars>>

\* ------------------------------------------ LiveStreamSender._run_stream()
\* The finally block: mic.stop_stream(); mic.close(); pa.terminate().
Finally(wr) == [wr EXCEPT !.mic = "closed", !.pa = "terminated"]

\* Leaving the two with-blocks closes whatever socket was opened.
CloseSock(wr) == [wr EXCEPT !.sock = IF wr.sock = "none" THEN "none" ELSE "closed"]

\* Faulty variant of ExitTry: an I/O error closes the socket and connects
\* again instead of ending the thread.
ExitTryRetrying(wr, why) ==
    IF why = "stopped"
      THEN [Finally(CloseSock(wr)) EXCEPT !.pc = "dead", !.cause = why]
      ELSE [CloseSock(wr) EXCEPT !.pc = "connect", !.cause = why]

\* An exit from inside the try block: with-exits, then finally, then the end
\* of the thread.
ExitTry(wr, why) == [Finally(CloseSock(wr)) EXCEPT !.pc = "dead", !.cause = why]

\* An exception before the try block: nothing is cleaned up.
ExitBeforeTry(wr, why) == [wr EXCEPT !.pc = "dead", !.cause = why]

\* Faulty variant of Step: a thread that ends clears the running flag.
StepClearingFlag(w, wr) ==
    /\ workers' = [workers EXCEPT ![w] = wr]
    /\ _running' = IF wr.pc = "dead" THEN FALSE ELSE _running
    /\ UNCHANGED <<_thread, callerPc, lastCall, callers>>
    /\ UNCHANGED <<registryVars, appVars, noiseVars, authVars>>

\* A step of thread w: nothing of the session but the thread itself changes.
Step(w, wr) ==
    /\ workers' = [workers EXCEPT ![w] = wr]
    /\ UNCHANGED <<_running, _thread, callerPc, lastCall, callers>>
    /\ UNCHANGED <<registryVars, appVars, noiseVars, authVars>>

\* pa = pyaudio.PyAudio()
run_PyAudio(w) ==
    /\ workers[w].pc = "PyAudio"
    /\ \E ok \in BOOLEAN :
         Step(w, IF ok THEN [workers[w] EXCEPT !.pc = "open", !.pa = "held"]
                       ELSE ExitBeforeTry(workers[w], "pa_fail"))

\* mic = pa.open(...)
run_open(w) ==
    /\ workers[w].pc = "open"
    /\ \E ok \in BOOLEAN :
         Step(w, IF ok THEN [workers[w] EXCEPT !.pc = "connect", !.mic = "open"]
                       ELSE ExitBeforeTry(workers[w], "dev_fail"))

\* context = self._ssl_context(); socket.create_connection(..., timeout=10)
run_connect(w) ==
    /\ workers[w].pc = "connect"
    /\ \E ok \in BOOLEAN :
         LET wr == [workers[w] EXCEPT !.conns = Count(@)]
         IN  Step(w, IF ok THEN [wr EXCEPT !.pc = "wrap", !.sock = "tcp"]
                           ELSE ExitTry(wr, "conn_fail"))

\* Faulty variant of SslContext: the host name is not checked.
SslContextNoHostname == [check_hostname |-> FALSE, verify_mode |-> "CERT_REQUIRED"]

\* _ssl_context(): create_default_context, check_hostname = True,
\* verify_mode = CERT_REQUIRED.
SslContext == [check_hostname |-> TRUE, verify_mode |-> "CERT_REQUIRED"]

\* The handshake of wrap_socket under a context: it raises unless the peer
\* meets what the context demands.
HandshakeOk(context, peer) ==
    /\ peer.completes
    /\ context.verify_mode = "CERT_REQUIRED" => peer.cert_valid
    /\ context.check_hostname => peer.name_matches

\* context.wrap_socket(sock, server_hostname=self.host)
run_wrap(w) ==
    /\ workers[w].pc = "wrap"
    /\ \E peer \in Peers :
         Step(w, IF HandshakeOk(SslContext, peer)
                   THEN [workers[w] EXCEPT !.pc = "loop", !.sock = "tls", !.peer = peer]
                   ELSE ExitTry(workers[w], "tls_fail"))

\* Faulty variant of LoopContinues: "while True:".
LoopContinuesAlways(r) == TRUE

\* while self._running:
LoopContinues(r) == r

run_loop(w) ==
    /\ workers[w].pc = "loop"
    /\ LET wr == [workers[w] EXCEPT !.late = IF _running THEN 0 ELSE @]
       IN  Step(w, IF LoopContinues(_running) THEN [wr EXCEPT !.pc = "read"]
                                              ELSE ExitTry(wr, "stopped"))

\* data = mic.read(self.chunk, exception_on_overflow=False)
run_read(w) ==
    /\ workers[w].pc = "read"
    /\ \E ok \in BOOLEAN :
         Step(w, IF ok THEN [workers[w] EXCEPT !.pc = "send", !.streamed = TRUE]
                       ELSE ExitTry(workers[w], "read_err"))

\* secure_sock.sendall(self.reducer.reduce_noise(data))
run_send(w) ==
    /\ workers[w].pc = "send"
    /\ \E ok \in BOOLEAN :
         LET wr == [workers[w] EXCEPT !.late = IF _running THEN @ ELSE Count(@)]
         IN  Step(w, IF ok THEN [wr EXCEPT !.pc = "loop"]
                           ELSE ExitTry(wr, "send_err"))

\* --------------------------------------------------------- PriorityManager
\* The masjid ids of the runs, in lexicographic order.
MasjidOrder == <<"masjidA", "masjidB", "masjidC">>
MasjidIds == {MasjidOrder[i] : i \in 1..Len(MasjidOrder)}
Priorities == 1..MaxPriority

\* An Optional[str]: nothing, or one id.
Nothing == <<>>
Some(x) == <<x>>

\* str.__lt__ on the ids of the runs.
IdLess(x, y) ==
    \E i, j \in 1..Len(MasjidOrder) : i < j /\ MasjidOrder[i] = x /\ MasjidOrder[j] = y

\* Faulty variant of Less: the comparison looks at the priority alone.
LessByPriorityOnly(x, y) == x.priority < y.priority

\* @dataclass(order=True): (priority, masjid_id, enabled) tuples compared
\* field by field, False before True.
Less(x, y) ==
    \/ x.priority < y.priority
    \/ /\ x.priority = y.priority
       /\ \/ IdLess(x.masjid_id, y.masjid_id)
          \/ x.masjid_id = y.masjid_id /\ ~x.enabled /\ y.enabled

\* One step of a stable sort: x goes behind every element that is not
\* greater than it.
Insert(t, x) ==
    LET k == Cardinality({i \in 1..Len(t) : ~Less(x, t[i])})
    IN  SubSeq(t, 1, k) \o <<x>> \o SubSeq(t, k + 1, Len(t))

\* list.sort() / sorted(): stable, ascending by Less.
RECURSIVE Sorted(_)
Sorted(s) ==
    IF s = <<>> THEN <<>> ELSE Insert(Sorted(SubSeq(s, 1, Len(s) - 1)), s[Len(s)])

MasjidPriority(p, g, e) == [priority |-> p, masjid_id |-> g, enabled |-> e]

\* Faulty variant of SetPriority: the old entry is not removed.
SetPriorityAppendOnly(list, g, p, e) == Sorted(Append(list, MasjidPriority(p, g, e)))

\* set_priority: drop the entries of g, append the new one, sort.
SetPriority(list, g, p, e) ==
    Sorted(Append(SelectSeq(list, LAMBDA q : q.masjid_id # g), MasjidPriority(p, g, e)))

\* Faulty variant of SetEnabled: an absent masjid gets a new entry.
SetEnabledInserting(list, g, e) ==
    IF \E i \in 1..Len(list) : list[i].masjid_id = g
      THEN [i \in 1..Len(list) |->
              IF list[i].masjid_id = g THEN [list[i] EXCEPT !.enabled = e] ELSE list[i]]
      ELSE Append(list, MasjidPriority(1, g, e))

\* set_enabled: flip the flag of the first entry of g, if there is one.
SetEnabled(list, g, e) ==
    LET hits == {i \in 1..Len(list) : list[i].masjid_id = g}
    IN  IF hits = {} THEN list
        ELSE LET i == CHOOSE k \in hits : \A m \in hits : k <= m
             IN  [list EXCEPT ![i].enabled = e]

\* The scan of highest_priority_live over an already sorted list.
RECURSIVE FirstLive(_, _)
FirstLive(s, live) ==
    IF s = <<>> THEN Nothing
    ELSE IF s[1].enabled /\ s[1].masjid_id \in live THEN Some(s[1].masjid_id)
    ELSE FirstLive(Tail(s), live)

\* Faulty variant of HighestPriorityLive: item.enabled is not tested.
HighestPriorityLiveIgnoringEnabled(list, live) ==
    FirstLive([i \in 1..Len(list) |-> [Sorted(list)[i] EXCEPT !.enabled = TRUE]], live)

\* highest_priority_live: the first enabled live entry of sorted(priority_list).
HighestPriorityLive(list, live) == FirstLive(Sorted(list), live)

Has(list, g) == \E i \in 1..Len(list) : list[i].masjid_id = g

NoOp == [op |-> "none", masjid_id |-> "", priority |-> 0, enabled |-> FALSE,
         had |-> FALSE, live |-> {}, result |-> Nothing, export |-> <<>>]

\* as_dicts: one dict per entry of sorted(priority_list).
AsDicts(list) ==
    [i \in 1..Len(list) |->
        [masjid_id |-> Sorted(list)[i].masjid_id,
         priority |-> Sorted(list)[i].priority,
         enabled |-> Sorted(list)[i].enabled]]

\* PriorityManager.__init__
RegistryInit ==
    /\ priority_list = <<>>
    /\ lastOp = NoOp

set_priority(g, p, e) ==
    /\ priority_list' = SetPriority(priority_list, g, p, e)
    /\ lastOp' = [NoOp EXCEPT !.op = "set_priority", !.masjid_id = g, !.priority = p,
                              !.enabled = e, !.had = Has(priority_list, g)]
    /\ UNCHANGED <<senderVars, appVars, noiseVars, authVars>>

set_enabled(g, e) ==
    /\ priority_list' = SetEnabled(priority_list, g, e)
    /\ lastOp' = [NoOp EXCEPT !.op = "set_enabled", !.masjid_id = g, !.enabled = e,
                              !.had = Has(priority_list, g)]
    /\ UNCHANGED <<senderVars, appVars, noiseVars, authVars>>

highest_priority_live(live) ==
    /\ lastOp' = [NoOp EXCEPT !.op = "highest_priority_live", !.live = live,
                              !.result = HighestPriorityLive(priority_list, live)]
    /\ UNCHANGED <<priority_list, senderVars, appVars, noiseVars, authVars>>

as_dicts ==
    /\ lastOp' = [NoOp EXCEPT !.op = "as_dicts", !.export = AsDicts(priority_list)]
    /\ UNCHANGED <<priority_list, senderVars, appVars, noiseVars, authVars>>

\* ------------------------------------------------------ OfflineAzaanPlayer
\* The keys of OfflineAzaanPlayer.tracks.
Tracks == {"fajr", "zuhr", "asr", "maghrib", "isha"}

\* The prayer names of the runs: the keys in several spellings, a name that
\* has no track, and the empty name.
PrayerNames ==
    {"fajr", "zuhr", "asr", "maghrib", "isha", "Fajr", "FAJR", "Isha", "jumma", ""}

\* str.lower() on the prayer names of the runs.
Lower(name) ==
    CASE name \in {"Fajr", "FAJR"} -> "fajr"
      [] name = "Isha" -> "isha"
      [] OTHER -> name

\* Faulty variant of PlayerFails: the name is looked up as given.
PlayerFailsCaseSensitive(name, exists) == name \notin Tracks \/ ~exists

\* play(): "if not path or not path.exists()" on tracks.get(name.lower()).
PlayerFails(name, exists) == Lower(name) \notin Tracks \/ ~exists

\* Faulty variant of PlayerStop: the reference is dropped, the sound goes on.
PlayerStopDropsOnly(cur, n) == [sound |-> Nothing, playing |-> n]

\* stop(): stops the current sound, if any, and forgets it; stopping a sound
\* that has already ended changes nothing that sounds.
PlayerStop(cur, n) ==
    IF cur # Nothing THEN [sound |-> Nothing, playing |-> IF n > 0 THEN n - 1 ELSE 0]
    ELSE [sound |-> cur, playing |-> n]

\* play(): FileNotFoundError when no track is mapped or the file is absent;
\* otherwise stop the current sound and keep what SoundLoader.load returns.
PlayerPlay(cur, name, exists, loaded) ==
    IF PlayerFails(name, exists)
      THEN [raised |-> TRUE, sound |-> cur]
      ELSE [raised |-> FALSE, sound |-> IF loaded THEN Some(Lower(name)) ELSE Nothing]

\* The sounds that are sounding after play(): on success the old one was
\* stopped and the new one, if it loaded, was started.
PlayerPlaying(cur, n, name, exists, loaded) ==
    IF PlayerFails(name, exists) THEN n
    ELSE PlayerStop(cur, n).playing + (IF loaded THEN 1 ELSE 0)

\* ------------------------------------------------------ LiveStreamReceiver
\* A receiver session as constructed: not running.
NewReceiver == [running |-> FALSE]

\* start(): the connection is established before start() returns; a failure
\* is raised to the caller and the session is not running.
ReceiverStart(rc, connOk) ==
    [raised |-> ~connOk, session |-> [rc EXCEPT !.running = connOk]]

\* stop(): clears the running flag.
ReceiverStop(rc) == [rc EXCEPT !.running = FALSE]

\* ------------------------------------------------------------ LiveAzaanApp
NoEvent == [op |-> "none", port_ok |-> FALSE, conn_ok |-> FALSE, constructed |-> FALSE,
            offline |-> Nothing, selected |-> Nothing, raised |-> FALSE, had |-> FALSE,
            sync |-> "none"]

\* build(): no receiver, the screen shows "Idle", nothing is playing.
AppInit ==
    /\ stream_status = "Idle"
    /\ receivers = <<>>
    /\ receiver = None
    /\ current_sound = Nothing
    /\ playing = 0
    /\ senders = <<>>
    /\ sender = None
    /\ user_role = "listener"
    /\ lastEvent = NoEvent

\* play_offline(): a missing track becomes the status text.
PlayOffline(status, cur, name, exists, loaded) ==
    LET r == PlayerPlay(cur, name, exists, loaded)
    IN  [status |-> IF r.raised THEN "Offline track not found" ELSE status,
         sound |-> r.sound, offline |-> Some(name)]

\* OfflineAzaanPlayer.play(name), called directly.
player_play(name, exists, loaded) ==
    /\ ~exists => ~loaded
    /\ current_sound' = PlayerPlay(current_sound, name, exists, loaded).sound
    /\ playing' = PlayerPlaying(current_sound, playing, name, exists, loaded)
    /\ lastEvent' = [NoEvent EXCEPT !.op = "play", !.offline = Some(name),
                                    !.raised = PlayerFails(name, exists),
                                    !.had = (current_sound # Nothing)]
    /\ UNCHANGED <<stream_status, receivers, receiver, castVars, senderVars, registryVars, noiseVars, authVars>>

\* OfflineAzaanPlayer.stop(), called directly.
player_stop ==
    /\ current_sound' = PlayerStop(current_sound, playing).sound
    /\ playing' = PlayerStop(current_sound, playing).playing
    /\ lastEvent' = [NoEvent EXCEPT !.op = "stop", !.had = (current_sound # Nothing)]
    /\ UNCHANGED <<stream_status, receivers, receiver, castVars, senderVars, registryVars, noiseVars, authVars>>

\* Faulty variant of ListenExcept: the play_offline call is missing.
ListenExceptNoFallback(cur, exists, loaded) ==
    [status |-> "Listen failed", sound |-> cur, offline |-> Nothing]

\* The except branch of listen_live: the status, then play_offline("fajr").
ListenExcept(cur, exists, loaded) ==
    PlayOffline("Listen failed", cur, "fajr", exists, loaded)

\* listen_live(host, port): int(port), the constructor, start(), and the
\* except branch for ValueError and OSError.  `live` is the set of live
\* masjids at the time of the call; the handler does not read it.
listen_live(portOk, connOk, exists, loaded, live) ==
    LET started == ReceiverStart(NewReceiver, connOk)
        failed == ~portOk \/ started.raised
        out == IF failed THEN ListenExcept(current_sound, exists, loaded)
               ELSE [status |-> "Listening", sound |-> current_sound, offline |-> Nothing]
    IN  /\ ~portOk => ~connOk       \* no connection attempt without a port
        /\ ~exists => ~loaded       \* nothing to load without the file
        /\ portOk => Len(receivers) < MaxReceivers
        /\ receivers' = IF portOk THEN Append(receivers, started.session) ELSE receivers
        /\ receiver' = IF portOk THEN Len(receivers) + 1 ELSE receiver
        /\ stream_status' = out.status
        /\ current_sound' = out.sound
        /\ playing' = IF failed
                        THEN PlayerPlaying(current_sound, playing, "fajr", exists, loaded)
                        ELSE playing
        /\ lastEvent' = [NoEvent EXCEPT !.op = "listen_live", !.port_ok = portOk,
                         !.conn_ok = connOk, !.constructed = portOk,
                         !.offline = out.offline,
                         !.selected = HighestPriorityLive(priority_list, live)]
        /\ UNCHANGED <<castVars, senderVars, registryVars, noiseVars, authVars>>

\* stop_listen()
stop_listen ==
    /\ receivers' = IF receiver # None
                      THEN [receivers EXCEPT ![receiver] = ReceiverStop(receivers[receiver])]
                      ELSE receivers
    /\ stream_status' = "Idle"
    /\ lastEvent' = [NoEvent EXCEPT !.op = "stop_listen"]
    /\ UNCHANGED <<receiver, current_sound, playing, castVars, senderVars, registryVars, noiseVars, authVars>>

\* LiveAzaanApp.set_priority(masjid_id, priority): the registry's
\* set_priority, always with enabled=True.
app_set_priority(g, p) ==
    /\ priority_list' = SetPriority(priority_list, g, p, TRUE)
    /\ lastEvent' = [NoEvent EXCEPT !.op = "set_priority"]
    /\ UNCHANGED <<lastOp, stream_status, receivers, receiver, current_sound, playing,
                   castVars, senderVars, noiseVars, authVars>>

\* ---------------------------- LiveStreamSender.start(), statement by statement
\* A caller's step on the session: the worker threads and the single
\* caller's record are as they were unless the step says otherwise.
CallerStep(c, pc) ==
    /\ callers' = [callers EXCEPT ![c] = pc]
    /\ UNCHANGED <<callerPc, lastCall>>
    /\ UNCHANGED <<registryVars, appVars, noiseVars, authVars>>

\* The call of start() by caller c.
start_call(c) ==
    /\ callers[c] = "idle"
    /\ CallerStep(c, "check")
    /\ UNCHANGED <<_running, _thread, workers>>

\* if self._running: return
start_check(c) ==
    /\ callers[c] = "check"
    /\ CallerStep(c, IF StartSpawns(_running) THEN "set" ELSE "returned")
    /\ UNCHANGED <<_running, _thread, workers>>

\* self._running = True
start_set(c) ==
    /\ callers[c] = "set"
    /\ _running' = TRUE
    /\ CallerStep(c, "create")
    /\ UNCHANGED <<_thread, workers>>

\* self._thread = threading.Thread(target=self._run_stream, daemon=True)
start_create(c) ==
    /\ callers[c] = "create"
    /\ Len(workers) < MaxWorkers
    /\ workers' = Append(workers, [NewWorker EXCEPT !.pc = "new"])
    /\ _thread' = Len(workers) + 1
    /\ CallerStep(c, "spawn")
    /\ UNCHANGED _running

\* self._thread.start(): the attribute is read again; a Thread that was
\* started before raises RuntimeError.
start_spawn(c) ==
    /\ callers[c] = "spawn"
    /\ IF workers[_thread].pc = "new"
         THEN /\ workers' = [workers EXCEPT ![_thread].pc = "PyAudio"]
              /\ CallerStep(c, "returned")
         ELSE /\ CallerStep(c, "raised")
              /\ UNCHANGED workers
    /\ UNCHANGED <<_running, _thread>>

\* ------------------------------------------------------------ NoiseReducer
\* 16-bit samples as audioop reads them: little-endian two's complement.
Sample(lo, hi) ==
    LET u == lo + 256 * hi
    IN  IF u >= 32768 THEN u - 65536 ELSE u

\* The two bytes of a sample, as the capture device writes them.
ToBytes(v) ==
    LET u == IF v < 0 THEN v + 65536 ELSE v
    IN  <<u % 256, u \div 256>>

Samples(data) ==
    [i \in 1..(Len(data) \div SampleWidth) |-> Sample(data[2 * i - 1], data[2 * i])]

RECURSIVE SumSquares(_, _)
SumSquares(xs, n) == IF n = 0 THEN 0 ELSE xs[n] * xs[n] + SumSquares(xs, n - 1)

\* The largest r in lo..hi with r * r <= n.
RECURSIVE IsqrtIn(_, _, _)
IsqrtIn(n, lo, hi) ==
    IF lo = hi THEN lo
    ELSE LET mid == (lo + hi + 1) \div 2
         IN  IF mid * mid <= n THEN IsqrtIn(n, mid, hi) ELSE IsqrtIn(n, lo, mid - 1)

Isqrt(n) == IsqrtIn(n, 0, 32768)

\* audioop.rms(fragment, width): the square root of the mean square,
\* truncated to an integer; 0 for an empty fragment.
Rms(data) ==
    LET xs == Samples(data)
    IN  IF Len(xs) = 0 THEN 0 ELSE Isqrt(SumSquares(xs, Len(xs)) \div Len(xs))

\* audioop raises audioop.error unless the fragment is a whole number of
\* samples.
RmsRaises(data) == Len(data) % SampleWidth # 0

\* Faulty variant of GateMutes: the threshold itself is muted.
GateMutesAtThreshold(rms) == rms <= GateThreshold

\* _reduce_noise_gate: "if rms < self.gate_threshold".
GateMutes(rms) == rms < GateThreshold

\* What a reduce_noise call gives: whether it raised, the bytes it returned,
\* and the frames it handed to the suppressor, in call order.
Returned(bytes, fs) == [raised |-> FALSE, out |-> bytes, frames |-> fs]

\* _reduce_noise_gate(audio_data)
ReduceNoiseGate(data) ==
    IF RmsRaises(data) THEN [raised |-> TRUE, out |-> <<>>, frames |-> <<>>]
    ELSE IF GateMutes(Rms(data)) THEN Returned([i \in 1..Len(data) |-> 0], <<>>)
    ELSE Returned(data, <<>>)

\* A stand-in for RNNoise.process_frame: a frame of the same length that
\* differs from its input in every byte.
ProcessFrame(frame) == [i \in 1..Len(frame) |-> 255 - frame[i]]

FrameSize == FrameSamples * SampleWidth

\* Faulty variant of PartialFrame: the short trailing chunk is dropped.
PartialFrameDropped(chunk) == <<>>

\* "if len(chunk) < frame_size: cleaned.extend(chunk)"
PartialFrame(chunk) == chunk

Min(a, b) == IF a < b THEN a ELSE b

\* The for loop of _reduce_rnnoise from offset i on.
RECURSIVE RnnoiseFrom(_, _, _, _)
RnnoiseFrom(data, i, acc, fs) ==
    IF i >= Len(data) THEN Returned(acc, fs)
    ELSE LET chunk == SubSeq(data, i + 1, Min(i + FrameSize, Len(data)))
         IN  IF Len(chunk) < FrameSize
               THEN RnnoiseFrom(data, i + FrameSize, acc \o PartialFrame(chunk), fs)
               ELSE RnnoiseFrom(data, i + FrameSize, acc \o ProcessFrame(chunk),
                                Append(fs, chunk))

\* _reduce_rnnoise(audio_data)
ReduceRnnoise(data) == RnnoiseFrom(data, 0, <<>>, <<>>)

\* reduce_noise(audio_data)
ReduceNoise(rn, data) ==
    IF data = <<>> THEN Returned(data, <<>>)
    ELSE IF rn THEN ReduceRnnoise(data)
    ELSE ReduceNoiseGate(data)

\* The sample values of the energy-gate inputs: silence and the values
\* around the threshold, of either sign.
SampleValues ==
    {0, GateThreshold - 1, GateThreshold, GateThreshold + 1, -GateThreshold,
     -(GateThreshold + 1)}

RECURSIVE Encode(_)
Encode(xs) == IF xs = <<>> THEN <<>> ELSE ToBytes(Head(xs)) \o Encode(Tail(xs))

\* Chunks of up to MaxSamples samples, whole or with one byte too many.
GateChunks ==
    {Encode(xs) \o tail : xs \in UNION {[1..n -> SampleValues] : n \in 0..MaxSamples},
                          tail \in {<<>>, <<1>>}}

\* Chunks of up to MaxFrames frames and a partial one, filled by a pattern.
FrameChunks ==
    {[i \in 1..(k * FrameSize + d) |-> (p * i) % 256] :
        k \in 0..MaxFrames, d \in {0, 1, FrameSize - 1}, p \in {1, 7}}

Chunks == GateChunks \cup FrameChunks

NoAudio == [op |-> "none", raised |-> FALSE, frames |-> <<>>]

\* No reducer call is under way.
ReducerInit ==
    /\ _rn = FALSE
    /\ audio_data = <<>>
    /\ cleaned = <<>>
    /\ lastAudio = NoAudio

\* reduce_noise(audio_data) on the chunk at hand.
reduce_noise ==
    LET r == ReduceNoise(_rn, audio_data)
    IN  /\ cleaned' = r.out
        /\ lastAudio' = [op |-> "reduce_noise", raised |-> r.raised, frames |-> r.frames]
        /\ UNCHANGED <<_rn, audio_data>>
        /\ UNCHANGED <<senderVars, registryVars, appVars, authVars>>

\* ------------------------------------------------------------- AuthManager
IdTokens == {"idA", "idB"}

RefreshTokens == {"rA", "rB"}

\* AuthSession, without the fields no call after the sign-in assigns.
AuthSession(id, rt, exp) == [id_token |-> id, refresh_token |-> rt, expires_at |-> exp]

\* What the provider may answer: a rejection (response.ok is false, with the
\* provider's error object or a text body), or an acceptance that names a
\* token, perhaps a refresh token and perhaps a lifetime.
Answers ==
    {a \in [ok : BOOLEAN, id_token : IdTokens,
            refresh_token : {Nothing} \cup {Some(rt) : rt \in RefreshTokens},
            expires_in : {Nothing} \cup {Some(n) : n \in 1..MaxLifetime}] :
        ~a.ok => (a.id_token = "idA" /\ a.refresh_token = Nothing
                    /\ a.expires_in = Nothing)}

\* int(data.get("expires_in", "3600"))
Lifetime(a) == IF a.expires_in = Nothing THEN DefaultLifetime ELSE a.expires_in[1]

\* Faulty variant of IsExpired: a token is still good at its expiry instant.
IsExpiredAfter(sess, t) == t > sess.expires_at

\* AuthSession.is_expired: now >= expires_at.
IsExpired(sess, t) == t >= sess.expires_at

\* Faulty variant of RefreshToken: a rejected refresh clears the session.
RefreshTokenClearing(sess, t, a) ==
    IF sess = Nothing THEN [raised |-> TRUE, session |-> sess, posts |-> 0]
    ELSE IF ~a.ok THEN [raised |-> TRUE, session |-> Nothing, posts |-> 1]
    ELSE [raised |-> FALSE, posts |-> 1,
          session |-> Some(AuthSession(a.id_token,
                                       IF a.refresh_token = Nothing
                                         THEN sess[1].refresh_token
                                         ELSE a.refresh_token[1],
                                       t + Lifetime(a)))]

\* _refresh_token(): one POST; AuthError on a rejection, else the session's
\* token, refresh token and expiry are replaced.
RefreshToken(sess, t, a) ==
    IF sess = Nothing THEN [raised |-> TRUE, session |-> sess, posts |-> 0]
    ELSE IF ~a.ok THEN [raised |-> TRUE, session |-> sess, posts |-> 1]
    ELSE [raised |-> FALSE, posts |-> 1,
          session |-> Some(AuthSession(a.id_token,
                                       IF a.refresh_token = Nothing
                                         THEN sess[1].refresh_token
                                         ELSE a.refresh_token[1],
                                       t + Lifetime(a)))]

\* require_token()
RequireToken(sess, t, a) ==
    IF sess = Nothing
      THEN [result |-> "AuthError", token |-> Nothing, session |-> sess, posts |-> 0]
    ELSE IF IsExpired(sess[1], t)
      THEN LET r == RefreshToken(sess, t, a)
           IN  IF r.raised
                 THEN [result |-> "AuthError", token |-> Nothing, session |-> r.session,
                       posts |-> r.posts]
                 ELSE [result |-> "returned", token |-> Some(r.session[1].id_token),
                       session |-> r.session, posts |-> r.posts]
    ELSE [result |-> "returned", token |-> Some(sess[1].id_token), session |-> sess,
          posts |-> 0]

NoAnswer ==
    [ok |-> FALSE, id_token |-> "idA", refresh_token |-> Nothing, expires_in |-> Nothing]

NoAuth ==
    [op |-> "none", result |-> "none", token |-> Nothing, posts |-> 0, before |-> Nothing,
     at |-> 0, answer |-> NoAnswer]

\* __init__: no session.
AuthInit ==
    /\ session = Nothing
    /\ now = 0
    /\ lastAuth = NoAuth

\* login(email, password) / register(email, password): _authenticate.
login(a) ==
    /\ a.ok => a.refresh_token # Nothing
    /\ session' = IF a.ok
                    THEN Some(AuthSession(a.id_token, a.refresh_token[1], now + Lifetime(a)))
                    ELSE session
    /\ lastAuth' = [NoAuth EXCEPT !.op = "login",
                                  !.result = IF a.ok THEN "returned" ELSE "AuthError",
                                  !.posts = 1]
    /\ UNCHANGED now
    /\ UNCHANGED <<senderVars, registryVars, appVars, noiseVars>>

\* logout()
logout ==
    /\ session' = Nothing
    /\ lastAuth' = [NoAuth EXCEPT !.op = "logout", !.result = "returned"]
    /\ UNCHANGED now
    /\ UNCHANGED <<senderVars, registryVars, appVars, noiseVars>>

\* Time passes.
tick ==
    /\ now < MaxTime
    /\ now' = now + 1
    /\ UNCHANGED <<session, lastAuth>>
    /\ UNCHANGED <<senderVars, registryVars, appVars, noiseVars>>

\* require_token(), with the answer the provider would give to a refresh.
require_token(a) ==
    LET r == RequireToken(session, now, a)
    IN  /\ session' = r.session
        /\ lastAuth' = [op |-> "require_token", result |-> r.result, token |-> r.token,
                        posts |-> r.posts, before |-> session, at |-> now,
                        answer |-> IF r.posts = 0 THEN NoAnswer ELSE a]
        /\ UNCHANGED now
        /\ UNCHANGED <<senderVars, registryVars, appVars, noiseVars>>

\* ------------------------------------------------------- the sender's runs
Init == SenderInit /\ RegistryInit /\ AppInit /\ ReducerInit /\ AuthInit

Next ==
    \/ start
    \/ stop
    \/ stop_join
    \/ \E w \in 1..Len(workers) : run_PyAudio(w)
    \/ \E w \in 1..Len(workers) : run_open(w)
    \/ \E w \in 1..Len(workers) : run_connect(w)
    \/ \E w \in 1..Len(workers) : run_wrap(w)
    \/ \E w \in 1..Len(workers) : run_loop(w)
    \/ \E w \in 1..Len(workers) : run_read(w)
    \/ \E w \in 1..Len(workers) : run_send(w)

Spec == Init /\ [][Next]_vars

\* join(timeout=2) comes back once the two seconds are over; the worker's
\* blocking reads and sends are under no such obligation.
FairSpec == Spec /\ WF_vars(stop_join)

\* The thread is scheduled, and every blocking mic.read and sendall it is in
\* returns (normally or with an exception).
LoopFair ==
    \A w \in 1..MaxWorkers :
        /\ WF_vars(w <= Len(workers) /\ run_loop(w))
        /\ WF_vars(w <= Len(workers) /\ run_read(w))
        /\ WF_vars(w <= Len(workers) /\ run_send(w))

StopSpec == Spec /\ WF_vars(stop_join) /\ LoopFair

\* ----------------------------------------------------- the registry's runs
PriorityInit == SenderInit /\ RegistryInit /\ AppInit /\ ReducerInit /\ AuthInit

PriorityNext ==
    \/ \E g \in MasjidIds, p \in Priorities, e \in BOOLEAN : set_priority(g, p, e)
    \/ \E g \in MasjidIds, e \in BOOLEAN : set_enabled(g, e)
    \/ \E live \in SUBSET MasjidIds : highest_priority_live(live)
    \/ as_dicts

PrioritySpec == PriorityInit /\ [][PriorityNext]_vars

\* -------------------------------------------------- the application's runs
AppStart == SenderInit /\ RegistryInit /\ AppInit /\ ReducerInit /\ AuthInit

AppNext ==
    \/ \E g \in MasjidIds, p \in Priorities : app_set_priority(g, p)
    \/ \E portOk, connOk, exists, loaded \in BOOLEAN, live \in SUBSET MasjidIds :
         listen_live(portOk, connOk, exists, loaded, live)
    \/ stop_listen

AppSpec == AppStart /\ [][AppNext]_vars

\* ------------------------------------------- LiveAzaanApp: the broadcaster
\* A sender session as the application sees it: the running flag and the
\* number of threads it has spawned.
NewSender == [running |-> FALSE, threads |-> 0]

\* LiveStreamSender.start() on a session of the application.
SenderStart(sd) ==
    IF StartSpawns(sd.running)
      THEN [running |-> TRUE, threads |-> sd.threads + 1]
      ELSE sd

\* LiveStreamSender.stop() on a session of the application, join included.
SenderStop(sd) == [sd EXCEPT !.running = FALSE]

\* What the "update live flag" step can meet: nothing to do (no masjid id,
\* not logged in), success, AuthError from require_token, MasjidError from a
\* non-2xx answer, or an exception of the HTTP call itself.
SyncOutcomes == {"skipped", "ok", "auth_error", "registry_error", "io_error"}

\* _update_masjid_live: "except (AuthError, MasjidError): pass".  TRUE when
\* an exception leaves it: requests' exceptions are neither of the two.
UpdateMasjidLiveRaises(sync) == sync = "io_error"

\* set_role(role)
set_role(role) ==
    /\ user_role' = role
    /\ lastEvent' = [NoEvent EXCEPT !.op = "set_role"]
    /\ UNCHANGED <<stream_status, receivers, receiver, current_sound, playing, senders,
                   sender, senderVars, registryVars, noiseVars, authVars>>

\* start_azaan(host, port, masjid_id): the role test, int(port), the
\* constructor, start(), the status, _update_masjid_live, and the except
\* branch for ValueError and OSError (requests' exceptions are OSErrors).
start_azaan(portOk, sync) ==
    IF user_role # "maulvi"
      THEN /\ stream_status' = "Switch role to Maulvi first"
           /\ lastEvent' = [NoEvent EXCEPT !.op = "start_azaan", !.port_ok = portOk]
           /\ UNCHANGED <<senders, sender>>
           /\ UNCHANGED <<receivers, receiver, current_sound, playing, user_role,
                          senderVars, registryVars, noiseVars, authVars>>
      ELSE /\ ~portOk => sync = "skipped"      \* the step is not reached
           /\ portOk => Len(senders) < MaxSenders
           /\ senders' = IF portOk THEN Append(senders, SenderStart(NewSender)) ELSE senders
           /\ sender' = IF portOk THEN Len(senders) + 1 ELSE sender
           /\ stream_status' = IF portOk /\ ~UpdateMasjidLiveRaises(sync)
                                 THEN "Broadcasting live" ELSE "Start failed"
           /\ lastEvent' = [NoEvent EXCEPT !.op = "start_azaan", !.port_ok = portOk,
                                           !.constructed = portOk, !.sync = sync]
           /\ UNCHANGED <<receivers, receiver, current_sound, playing, user_role,
                          senderVars, registryVars, noiseVars, authVars>>

\* stop_azaan(masjid_id): stop(), the status, _update_masjid_live; nothing
\* is caught here.
stop_azaan(sync) ==
    /\ senders' = IF sender # None
                    THEN [senders EXCEPT ![sender] = SenderStop(senders[sender])]
                    ELSE senders
    /\ stream_status' = "Stopped"
    /\ lastEvent' = [NoEvent EXCEPT !.op = "stop_azaan", !.sync = sync,
                                    !.raised = UpdateMasjidLiveRaises(sync)]
    /\ UNCHANGED <<sender, receivers, receiver, current_sound, playing, user_role,
                   senderVars, registryVars, noiseVars, authVars>>

\* ----------------------------------------- LiveAzaanApp: notifications
\* Actions a notification payload may carry; "none" is a payload without one.
NotificationActions == {"play_offline", "refresh", "none"}

\* What a payload may say of the prayer: nothing, a track in another case,
\* a name without a track.
NotifiedPrayers == {Nothing, Some("Isha"), Some("jumma")}

\* _on_notification: data.get("action") == "play_offline".  (Faulty variant
\* first: every notification plays.)
NotificationPlaysAlways(action) == TRUE

NotificationPlays(action) == action = "play_offline"

\* _on_notification: data.get("prayer", "fajr").  (Faulty variant first:
\* the named prayer is ignored.)
NotificationPrayerDefaultOnly(given) == "fajr"

NotificationPrayer(given) == IF given = Nothing THEN "fajr" ELSE given[1]

\* NotificationService.receive_notification(payload) with the handler that
\* build() installs: _on_notification, then play_offline.
receive_notification(action, given, exists, loaded) ==
    LET name == NotificationPrayer(given)
        out == PlayOffline(stream_status, current_sound, name, exists, loaded)
    IN  /\ ~exists => ~loaded
        /\ IF NotificationPlays(action)
             THEN /\ stream_status' = out.status
                  /\ current_sound' = out.sound
                  /\ playing' = PlayerPlaying(current_sound, playing, name, exists, loaded)
                  /\ lastEvent' = [NoEvent EXCEPT !.op = "notification",
                                                  !.offline = out.offline,
                                                  !.had = (current_sound # Nothing)]
             ELSE /\ lastEvent' = [NoEvent EXCEPT !.op = "notification"]
                  /\ UNCHANGED <<stream_status, current_sound, playing>>
        /\ UNCHANGED <<receivers, receiver, castVars, senderVars, registryVars, noiseVars, authVars>>

\* A sound that is sounding reaches its end; the player keeps its reference.
sound_ends ==
    /\ playing > 0
    /\ playing' = playing - 1
    /\ lastEvent' = [NoEvent EXCEPT !.op = "sound_ends"]
    /\ UNCHANGED <<stream_status, receivers, receiver, current_sound, castVars,
                   senderVars, registryVars, noiseVars, authVars>>

\* -------------------------------------------------- the offline player's runs
PlayerInit == SenderInit /\ RegistryInit /\ AppInit /\ ReducerInit /\ AuthInit

PlayerNext ==
    \/ \E name \in PrayerNames, exists, loaded \in BOOLEAN : player_play(name, exists, loaded)
    \/ player_stop
    \/ sound_ends

PlayerSpec == PlayerInit /\ [][PlayerNext]_vars

\* -------------------------------------------------- the broadcaster's runs
CastInit == SenderInit /\ RegistryInit /\ AppInit /\ ReducerInit /\ AuthInit

CastNext ==
    \/ \E role \in {"listener", "maulvi"} : set_role(role)
    \/ \E portOk \in BOOLEAN, sync \in SyncOutcomes : start_azaan(portOk, sync)
    \/ \E sync \in SyncOutcomes : stop_azaan(sync)

CastSpec == CastInit /\ [][CastNext]_vars

\* ------------------------------------------------- the coordinator's runs
\* Broadcasting, listening (with an empty registry) and notifications.
ShellInit == SenderInit /\ RegistryInit /\ AppInit /\ ReducerInit /\ AuthInit

ShellNext ==
    \/ \E role \in {"listener", "maulvi"} : set_role(role)
    \/ \E portOk \in BOOLEAN, sync \in {"skipped", "io_error"} : start_azaan(portOk, sync)
    \/ \E sync \in {"skipped"} : stop_azaan(sync)
    \/ \E portOk, connOk, exists, loaded \in BOOLEAN :
         /\ (portOk /\ connOk) => ~exists       \* no fallback, the file is not looked at
         /\ listen_live(portOk, connOk, exists, loaded, {})
    \/ stop_listen
    \/ \E action \in NotificationActions, given \in NotifiedPrayers, exists, loaded \in BOOLEAN :
         /\ action # "play_offline" => (given = Nothing /\ ~exists)
         /\ receive_notification(action, given, exists, loaded)

ShellSpec == ShellInit /\ [][ShellNext]_vars

\* --------------------------------------------------- the reducer's runs
\* A reducer in either mode, constructed once, and a chunk to clean.  The
\* energy gate is given the short chunks, whose sums of squares stay small.
NoiseInit ==
    /\ SenderInit /\ RegistryInit /\ AppInit /\ AuthInit
    /\ _rn \in BOOLEAN
    /\ audio_data \in IF _rn THEN Chunks ELSE GateChunks
    /\ cleaned = <<>>
    /\ lastAudio = NoAudio

NoiseNext == reduce_noise

NoiseSpec == NoiseInit /\ [][NoiseNext]_vars

\* ------------------------------------------- the authentication's runs
AuthStart == SenderInit /\ RegistryInit /\ AppInit /\ ReducerInit /\ AuthInit

AuthNext ==
    \/ \E a \in Answers : login(a)
    \/ logout
    \/ tick
    \/ \E a \in Answers : require_token(a)

AuthSpec == AuthStart /\ [][AuthNext]_vars

\* ------------------------------------------- concurrent callers' runs
RaceInit == SenderInit /\ RegistryInit /\ AppInit /\ ReducerInit /\ AuthInit

RaceNext ==
    \/ \E c \in 1..MaxCallers : start_call(c)
    \/ \E c \in 1..MaxCallers : start_check(c)
    \/ \E c \in 1..MaxCallers : start_set(c)
    \/ \E c \in 1..MaxCallers : start_create(c)
    \/ \E c \in 1..MaxCallers : start_spawn(c)
    \/ \E w \in 1..Len(workers) : run_PyAudio(w)
    \/ \E w \in 1..Len(workers) : run_open(w)
    \/ \E w \in 1..Len(workers) : run_connect(w)
    \/ \E w \in 1..Len(workers) : run_wrap(w)
    \/ \E w \in 1..Len(workers) : run_loop(w)
    \/ \E w \in 1..Len(workers) : run_read(w)
    \/ \E w \in 1..Len(workers) : run_send(w)

RaceSpec == RaceInit /\ [][RaceNext]_vars

\* ------------------------------------------------- claims about the sender
\* C1: for one session, in every state reachable by start(), stop() and the
\* worker's steps, at most one worker is active.  (The code breaks it: a
\* stop() whose join timed out leaves the old worker alive and the flag clear,
\* so the next start() spawns a second one.)
C1_AtMostOneActiveWorker == Cardinality(ActiveWorkers) <= 1

\* C2: a start() that directly follows a start() spawns no thread and leaves
\* the running flag and the worker handle unchanged; on a fresh session the
\* two calls together have spawned exactly one worker, the only one that can
\* be active.
C2_StartIdempotent ==
    [][(lastCall.op = "start" /\ start) =>
          /\ workers' = workers
          /\ _running' = _running
          /\ _thread' = _thread
          /\ ~lastCall'.spawned
          /\ lastCall.first => (Len(workers') = 1 /\ _thread' = 1 /\ ActiveWorkers' \subseteq {1})
      ]_vars

\* C2's case: the second start() has returned and the one worker is active.
C2_Witness ==
    /\ lastCall.op = "start"
    /\ ~lastCall.spawned
    /\ Len(workers) = 1
    /\ ActiveWorkers = {1}

\* The ways a worker ends that C3 calls start-time failures.
StartFailures == {"dev_fail", "conn_fail", "tls_fail"}

\* C3: whenever the worker a start() call spawned could not open the device
\* or establish the connection, that start() call ended in an error.  (The
\* code breaks it: the failure happens in the worker thread, after start()
\* has returned normally.)
C3_StartFailureSurfaces ==
    (/\ lastCall.op = "start"
     /\ lastCall.spawned
     /\ workers[_thread].cause \in StartFailures) => lastCall.result = "raised"

\* What a worker may still hold.
Holds(wr) == wr.pa = "held" \/ wr.mic = "open" \/ wr.sock \in {"tcp", "tls"}

\* C6: a worker that has terminated, on whatever exit path, holds neither the
\* audio subsystem handle nor the input device nor a socket.  (The code breaks
\* it: pa.open() is outside the try block, so a device-open failure skips
\* pa.terminate().)
C6_CleanupOnEveryExit ==
    \A w \in 1..Len(workers) : workers[w].pc = "dead" => ~Holds(workers[w])

\* C7: stop() clears the running flag, and once it waits in join it always
\* comes back to its caller, with the flag still clear, whether or not the
\* worker has ended.
C7_StopReturns ==
    /\ [][stop => ~_running']_vars
    /\ [][stop_join => (callerPc' = "idle" /\ ~_running' /\ lastCall'.result = "returned")]_vars
    /\ (callerPc = "joining" ~> callerPc = "idle")

\* C7's case: stop() has returned while its worker is still inside mic.read.
C7_Witness ==
    /\ lastCall.op = "stop"
    /\ lastCall.result = "returned"
    /\ callerPc = "idle"
    /\ ~_running
    /\ _thread \in ActiveWorkers
    /\ workers[_thread].pc = "read"

\* C8: stop() on a session that never spawned a thread returns at once,
\* without joining, and leaves the flag false and the handle empty.
C8_StopNeverStarted ==
    [][(workers = <<>> /\ stop) =>
          /\ ~_running /\ ~_running'
          /\ _thread = None /\ _thread' = None
          /\ workers' = <<>>
          /\ callerPc' = "idle"
          /\ lastCall'.result = "returned"
      ]_vars

\* C8's case: stop() was the first call on the session and has returned.
C8_Witness ==
    /\ lastCall.op = "stop"
    /\ lastCall.first
    /\ lastCall.result = "returned"
    /\ workers = <<>>
    /\ callerPc = "idle"

C5_NoCandidateFallsBack ==
    (lastEvent.op = "listen_live" /\ lastEvent.selected = Nothing) =>
        (~lastEvent.constructed /\ lastEvent.offline = Some("fajr"))

\* --------------------------------------------- claims about the registry
\* The entries that are enabled and live.
Qualifying(list, live) ==
    {i \in 1..Len(list) : list[i].enabled /\ list[i].masjid_id \in live}

\* Lower priority value first, ties by masjid id ascending.
Before(x, y) ==
    \/ x.priority < y.priority
    \/ x.priority = y.priority /\ IdLess(x.masjid_id, y.masjid_id)

EntryOf(list, g) == list[CHOOSE i \in 1..Len(list) : list[i].masjid_id = g]

\* What highest_priority_live is to return.
IsSelection(list, live, r) ==
    IF Qualifying(list, live) = {} THEN r = Nothing
    ELSE \E i \in Qualifying(list, live) :
            /\ r = Some(list[i].masjid_id)
            /\ \A j \in Qualifying(list, live) : j # i => Before(list[i], list[j])

\* g has an entry whose priority value is below that of every enabled live one.
LowerThanLive(list, live, g) ==
    /\ Has(list, g)
    /\ \A j \in Qualifying(list, live) : EntryOf(list, g).priority < list[j].priority

\* C9 as stated: highest_priority_live returns the first enabled live entry in
\* sort order, nothing exactly when there is none, and enlarging the live set
\* with any group of lower priority number changes the result to that group.
C9_AsStated ==
    lastOp.op = "highest_priority_live" =>
        /\ IsSelection(priority_list, lastOp.live, lastOp.result)
        /\ \A g \in MasjidIds \ lastOp.live :
              LowerThanLive(priority_list, lastOp.live, g) =>
                  HighestPriorityLive(priority_list, lastOp.live \cup {g}) = Some(g)

\* C9, amended: highest_priority_live returns the first enabled live entry in
\* sort order, nothing exactly when there is none, and enlarging the live set
\* with an enabled group of lower priority number changes the result to it.
C9_Selection ==
    lastOp.op = "highest_priority_live" =>
        /\ IsSelection(priority_list, lastOp.live, lastOp.result)
        /\ \A g \in MasjidIds \ lastOp.live :
              (LowerThanLive(priority_list, lastOp.live, g) /\ EntryOf(priority_list, g).enabled) =>
                  HighestPriorityLive(priority_list, lastOp.live \cup {g}) = Some(g)

\* C9's case: the call returned a group whose removal from the live set
\* leaves another group, of higher priority number, as the result.
C9_Witness ==
    /\ lastOp.op = "highest_priority_live"
    /\ \E g \in lastOp.live : \E h \in lastOp.live \ {g} :
          /\ lastOp.result = Some(g)
          /\ HighestPriorityLive(priority_list, lastOp.live \ {g}) = Some(h)
          /\ EntryOf(priority_list, g).priority < EntryOf(priority_list, h).priority

CountOf(list, g) == Cardinality({i \in 1..Len(list) : list[i].masjid_id = g})
Others(list, g) == SelectSeq(list, LAMBDA q : q.masjid_id # g)

\* C10: after set_priority(g, p, e) the registry holds exactly one entry for
\* g, with priority p and enabled e, and the entries of the other masjids are
\* as before; in every reachable state there is at most one entry per masjid.
C10_Upsert ==
    /\ [][\A g \in MasjidIds, p \in Priorities, e \in BOOLEAN :
            set_priority(g, p, e) =>
                /\ CountOf(priority_list', g) = 1
                /\ EntryOf(priority_list', g) = MasjidPriority(p, g, e)
                /\ Others(priority_list', g) = Others(priority_list, g)
         ]_vars
    /\ [](\A g \in MasjidIds : CountOf(priority_list, g) <= 1)

\* C10's case: set_priority replaced an entry in a registry that has others.
C10_Witness ==
    /\ lastOp.op = "set_priority"
    /\ lastOp.had
    /\ Len(priority_list) >= 2
    /\ CountOf(priority_list, lastOp.masjid_id) = 1
    /\ EntryOf(priority_list, lastOp.masjid_id).priority = lastOp.priority

\* Every earlier element comes before every later one: priority ascending,
\* ties by masjid id ascending.
IsOrdered(seq) == \A i, j \in 1..Len(seq) : i < j => Before(seq[i], seq[j])

\* C11: after any sequence of set_priority and set_enabled calls the stored
\* list is ordered by priority ascending, ties by masjid id ascending,
\* whatever the insertion order and the enabled flags; and as_dicts returns
\* the entries in that order, each exactly once.
C11_SortedExport ==
    /\ IsOrdered(priority_list)
    /\ lastOp.op = "as_dicts" =>
          /\ IsOrdered(lastOp.export)
          /\ Len(lastOp.export) = Len(priority_list)
          /\ \A i \in 1..Len(priority_list) :
                Cardinality({k \in 1..Len(lastOp.export) :
                    /\ lastOp.export[k].masjid_id = priority_list[i].masjid_id
                    /\ lastOp.export[k].priority = priority_list[i].priority
                    /\ lastOp.export[k].enabled = priority_list[i].enabled}) = 1

\* C11's case: an export of three entries with a tie in priority, where the
\* enabled entry of the tie comes before the disabled one.
C11_Witness ==
    /\ lastOp.op = "as_dicts"
    /\ Len(lastOp.export) = 3
    /\ lastOp.export[1].priority = lastOp.export[2].priority
    /\ lastOp.export[1].enabled
    /\ ~lastOp.export[2].enabled

\* C12: set_enabled(g, e) sets the flag of the entry of g to e and changes
\* nothing else: the length, every priority and masjid id, the order and the
\* flags of the other entries stay; with g absent the list is unchanged.
C12_SetEnabledFrame ==
    [][\A g \in MasjidIds, e \in BOOLEAN :
          set_enabled(g, e) =>
              /\ Len(priority_list') = Len(priority_list)
              /\ \A i \in 1..Len(priority_list) :
                    /\ priority_list'[i].masjid_id = priority_list[i].masjid_id
                    /\ priority_list'[i].priority = priority_list[i].priority
                    /\ priority_list'[i].enabled =
                          IF priority_list[i].masjid_id = g THEN e
                          ELSE priority_list[i].enabled
              /\ ~Has(priority_list, g) => priority_list' = priority_list
      ]_vars

\* C12's case: set_enabled flipped an entry next to one with the other flag.
C12_Witness ==
    /\ lastOp.op = "set_enabled"
    /\ lastOp.had
    /\ EntryOf(priority_list, lastOp.masjid_id).enabled = lastOp.enabled
    /\ \E i \in 1..Len(priority_list) :
          /\ priority_list[i].masjid_id # lastOp.masjid_id
          /\ priority_list[i].enabled # lastOp.enabled

\* C14: once stop_listen has set the status to "Idle", no receiver that
\* listen_live started still has its running flag set.  (The code breaks it:
\* listen_live overwrites self.receiver, so after two listen_live calls
\* stop_listen stops only the second receiver.)
C14_StopListenTearsDown ==
    stream_status = "Idle" => \A r \in 1..Len(receivers) : ~receivers[r].running

\* ---------------------------------------- claims about the offline player
\* C16: play(name) fails with "not found" exactly when the case-folded name
\* has no track or the file is absent, and then leaves the player as it was;
\* on success the sound that was current is stopped and replaced by the new
\* one, so that after any sequence of play and stop at most one sound is
\* sounding, and it is the current one.
C16_PlayNotFound ==
    /\ [][\A name \in PrayerNames, exists, loaded \in BOOLEAN :
            player_play(name, exists, loaded) =>
                /\ lastEvent'.raised <=> (Lower(name) \notin Tracks \/ ~exists)
                /\ lastEvent'.raised => (current_sound' = current_sound /\ playing' = playing)
                /\ ~lastEvent'.raised =>
                      /\ current_sound' = IF loaded THEN Some(Lower(name)) ELSE Nothing
                      /\ playing' = IF loaded THEN 1 ELSE 0
         ]_vars
    /\ [](playing <= 1 /\ (playing = 1 => current_sound # Nothing))

\* C16's case: a play under a differently spelled name succeeded and
\* replaced the sound that was current.
C16_Witness ==
    /\ lastEvent.op = "play"
    /\ ~lastEvent.raised
    /\ lastEvent.had
    /\ lastEvent.offline = Some("Isha")
    /\ current_sound = Some("isha")
    /\ playing = 1

\* ------------------------------------------ claims about the broadcaster
\* C13: whatever the "update live flag" step meets, start_azaan with the
\* maulvi role and a valid endpoint ends with the sender started and the
\* status "Broadcasting live", and stop_azaan ends with the sender stopped
\* and the status "Stopped" without raising.  (The code breaks it: an
\* exception of the HTTP call itself is no AuthError or MasjidError, so it
\* leaves _update_masjid_live; start_azaan catches it as an OSError and shows
\* "Start failed", stop_azaan lets it through to its caller.)
C13_StatusSyncAdvisory ==
    /\ (lastEvent.op = "start_azaan" /\ lastEvent.constructed) =>
          (senders[sender].running /\ stream_status = "Broadcasting live")
    /\ lastEvent.op = "stop_azaan" =>
          /\ ~lastEvent.raised
          /\ stream_status = "Stopped"
          /\ sender # None => ~senders[sender].running

\* C15: in every coordinator state a notification whose action is
\* "play_offline" invokes offline playback for the prayer it names ("fajr"
\* when it names none) and leaves the sender and receiver sessions as they
\* were; a notification with any other action plays nothing.
C15_NotificationPlaysOffline ==
    [][lastEvent'.op = "notification" =>
         \A action \in NotificationActions, given \in NotifiedPrayers,
            exists, loaded \in BOOLEAN :
            receive_notification(action, given, exists, loaded) =>
                LET prayer == IF given = Nothing THEN "fajr" ELSE given[1]
                IN  /\ senders' = senders /\ sender' = sender
                    /\ receivers' = receivers /\ receiver' = receiver
                    /\ action = "play_offline" =>
                          /\ lastEvent'.offline = Some(prayer)
                          /\ (~PlayerFails(prayer, exists) /\ loaded) =>
                                (current_sound' = Some(Lower(prayer)) /\ playing' = 1)
                          /\ PlayerFails(prayer, exists) =>
                                (current_sound' = current_sound /\ playing' = playing)
                    /\ action # "play_offline" =>
                          /\ lastEvent'.offline = Nothing
                          /\ current_sound' = current_sound
                          /\ playing' = playing
                          /\ stream_status' = stream_status
     ]_vars

\* A notification without a prayer played "fajr" while a sender and a
\* receiver session were running.
C15_Witness ==
    /\ lastEvent.op = "notification"
    /\ lastEvent.offline = Some("fajr")
    /\ current_sound = Some("fajr") /\ playing = 1
    /\ sender # None /\ senders[sender].running
    /\ receiver # None /\ receivers[receiver].running

\* ------------------------------------- claims about the sender's loop
\* The ways a worker ends on an I/O failure.
IOFailures == {"conn_fail", "tls_fail", "read_err", "send_err"}

\* C19: the first failed connection attempt, device read or socket send ends
\* the worker: it exits at that step and takes no step afterwards, and no
\* worker calls create_connection more than once.
C19_FailureIsTerminal ==
    /\ [](\A w \in 1..Len(workers) :
            /\ workers[w].conns <= 1
            /\ workers[w].cause \in IOFailures => workers[w].pc = "dead")
    /\ [][\A w \in 1..Len(workers) :
            workers[w].pc = "dead" => workers'[w] = workers[w]]_vars

\* Both workers of a session ended on an I/O failure, one in its connection
\* attempt and one in a send, each after its only connection attempt.
C19_Witness ==
    /\ Len(workers) = 2
    /\ workers[1].cause = "send_err" /\ workers[1].conns = 1
    /\ workers[2].cause = "conn_fail" /\ workers[2].conns = 1

\* The worker w is in its streaming loop.
InLoop(w) == w \in 1..Len(workers) /\ workers[w].pc \in {"loop", "read", "send"}

\* C20: once stop() was called on a session whose worker is in its loop,
\* then, unless start() is called again, the worker ends with the device, the
\* audio handle and the connection released; and after its loop test last
\* found the flag set a worker sends at most one chunk with the flag clear.
C20_StopIsObserved ==
    /\ [](\A w \in 1..Len(workers) : workers[w].late <= 1)
    /\ \A w \in 1..MaxWorkers :
          (InLoop(w) /\ lastCall.op = "stop") ~>
              (\/ lastCall.op = "start"
               \/ /\ w <= Len(workers)
                  /\ workers[w].pc = "dead"
                  /\ ~Holds(workers[w])
                  /\ workers[w].late <= 1)

\* stop() came while the worker was blocked in its read; the worker sent
\* that one chunk, saw the cleared flag and ended with everything released.
C20_Witness ==
    /\ lastCall.op = "stop"
    /\ Len(workers) = 1
    /\ workers[1].cause = "stopped"
    /\ workers[1].late = 1
    /\ ~Holds(workers[1])

\* ------------------------------------------ claims about the reducer
\* The chunk is a whole number of samples.
WholeSamples(data) == Len(data) % SampleWidth = 0

\* The mean square of the chunk is below the square of the threshold, so
\* its truncated root mean square is below the threshold.
BelowThreshold(data) ==
    LET xs == Samples(data)
    IN  SumSquares(xs, Len(xs)) < GateThreshold * GateThreshold * Len(xs)

\* C17: in energy-gate mode, for a chunk of whole samples: the output is as
\* long as the input; it is all zero bytes when the chunk's RMS is below the
\* threshold and the input itself, byte for byte, when the RMS is the
\* threshold or more; an empty chunk gives an empty output.
C17_EnergyGate ==
    (lastAudio.op = "reduce_noise" /\ ~_rn /\ WholeSamples(audio_data)) =>
        /\ ~lastAudio.raised
        /\ Len(cleaned) = Len(audio_data)
        /\ (audio_data # <<>> /\ BelowThreshold(audio_data)) =>
              \A i \in 1..Len(cleaned) : cleaned[i] = 0
        /\ (audio_data = <<>> \/ ~BelowThreshold(audio_data)) => cleaned = audio_data

\* A chunk of two different samples whose RMS is exactly the threshold went
\* through the gate unmuted.
C17_Witness ==
    /\ lastAudio.op = "reduce_noise" /\ ~_rn
    /\ Len(audio_data) = 2 * SampleWidth
    /\ audio_data[1] # audio_data[3]
    /\ Rms(audio_data) = GateThreshold
    /\ cleaned = audio_data

\* C18: in neural mode, for an input of n bytes and frames of f = 480 x
\* sample width bytes: the suppressor is called floor(n/f) times, on the full
\* frames in input order; the output is its results in that order, followed
\* by the last n mod f bytes of the input as they are.
C18_NeuralFrames ==
    (lastAudio.op = "reduce_noise" /\ _rn) =>
        LET n == Len(audio_data)
            f == FrameSamples * SampleWidth
            k == n \div f
        IN  /\ ~lastAudio.raised
            /\ Len(lastAudio.frames) = k
            /\ Len(cleaned) = n
            /\ \A j \in 1..k :
                  /\ lastAudio.frames[j] = SubSeq(audio_data, (j - 1) * f + 1, j * f)
                  /\ SubSeq(cleaned, (j - 1) * f + 1, j * f) = ProcessFrame(lastAudio.frames[j])
            /\ SubSeq(cleaned, k * f + 1, n) = SubSeq(audio_data, k * f + 1, n)

\* Two full frames went through the suppressor and a partial frame followed
\* them unchanged.
C18_Witness ==
    /\ lastAudio.op = "reduce_noise" /\ _rn
    /\ Len(audio_data) = 2 * FrameSize + 1
    /\ Len(lastAudio.frames) = 2
    /\ cleaned # audio_data
    /\ cleaned[Len(cleaned)] = audio_data[Len(audio_data)]

\* --------------------------------- claims about the broadcaster's sessions
\* C24: once stop_azaan has completed, no sender the application created has
\* its running flag set, however many start_azaan calls came before; and a
\* sender is created and started only under the role "maulvi".  (The code
\* breaks it: start_azaan overwrites self.sender without stopping the sender
\* it held, and stop_azaan stops only self.sender.)
C24_StopAzaanStopsEverySender ==
    /\ lastEvent.op = "stop_azaan" =>
          \A sd \in 1..Len(senders) : ~senders[sd].running
    /\ (lastEvent.op = "start_azaan" /\ lastEvent.constructed) => user_role = "maulvi"

\* ------------------------------------- claims about the running flag
\* The ways a worker ends by itself.
OwnExits == {"pa_fail", "dev_fail", "conn_fail", "tls_fail", "read_err", "send_err"}

\* C23: only stop() clears the running flag.  After the worker has ended by
\* itself the flag is still set, so a start() on the same session spawns
\* nothing until stop() has been called.
C23_OnlyStopClearsFlag ==
    /\ [](lastCall.op = "start" => _running)
    /\ [][(_running /\ ~_running') => (lastCall'.op = "stop" /\ lastCall # lastCall')]_vars
    /\ [][(start /\ _running) => (workers' = workers /\ _thread' = _thread)]_vars

\* The only worker ended by itself and the start() that followed spawned
\* nothing.
C23_Witness ==
    /\ lastCall.op = "start" /\ ~lastCall.spawned
    /\ _running
    /\ Len(workers) = 1
    /\ workers[1].pc = "dead" /\ workers[1].cause \in OwnExits

\* ---------------------------------------- claims about the transport
\* The far end was verified: its certificate chains to the trust anchor and
\* names the target host.
Verified(peer) == peer.cert_valid /\ peer.name_matches

\* C22: a worker reads from the device and writes to the transport only
\* over a TLS socket whose peer was verified, after the connection attempt;
\* a worker whose connection or handshake failed has read no chunk, and so
\* sent none.
C22_NoLowerSecurityMode ==
    /\ [](\A w \in 1..Len(workers) :
            /\ (workers[w].pc \in {"read", "send"} \/ workers[w].streamed) =>
                  /\ Verified(workers[w].peer)
                  /\ workers[w].conns = 1
                  /\ workers[w].sock \in {"tls", "closed"}
            /\ workers[w].pc \in {"read", "send"} => workers[w].sock = "tls"
            /\ workers[w].cause \in {"conn_fail", "tls_fail"} => ~workers[w].streamed)
    /\ [][\A w \in 1..Len(workers) :
            (workers[w].pc = "send" /\ workers'[w] # workers[w]) =>
                (workers[w].sock = "tls" /\ Verified(workers[w].peer))]_vars

\* One worker has streamed to a verified peer, another ended in the
\* handshake without reading a chunk.
C22_Witness ==
    /\ Len(workers) = 2
    /\ workers[1].streamed /\ workers[1].pc = "loop" /\ Verified(workers[1].peer)
    /\ workers[2].cause = "tls_fail" /\ ~workers[2].streamed /\ workers[2].sock = "closed"

\* ------------------------------------ claims about the authentication
\* C25: require_token fails with an authentication error when there is no
\* session; returns the session's token without a request when the session
\* has not expired; with an expired session makes one refresh request and
\* returns the new token when it is accepted; and when it is rejected fails
\* with an authentication error after that one request, the session left as
\* it was.
C25_RequireToken ==
    lastAuth.op = "require_token" =>
        LET before == lastAuth.before
            expired == before # Nothing /\ lastAuth.at >= before[1].expires_at
        IN  /\ before = Nothing =>
                  (lastAuth.result = "AuthError" /\ lastAuth.posts = 0 /\ session = Nothing)
            /\ (before # Nothing /\ ~expired) =>
                  /\ lastAuth.result = "returned"
                  /\ lastAuth.token = Some(before[1].id_token)
                  /\ lastAuth.posts = 0
                  /\ session = before
            /\ (expired /\ lastAuth.answer.ok) =>
                  /\ lastAuth.result = "returned"
                  /\ lastAuth.token = Some(lastAuth.answer.id_token)
                  /\ lastAuth.posts = 1
                  /\ session # Nothing /\ session[1].id_token = lastAuth.answer.id_token
            /\ (expired /\ ~lastAuth.answer.ok) =>
                  /\ lastAuth.result = "AuthError"
                  /\ lastAuth.posts = 1
                  /\ session = before

\* The refresh of an expired session was rejected: one request, an
\* authentication error, and the session as it was.
C25_Witness ==
    /\ lastAuth.op = "require_token"
    /\ lastAuth.before # Nothing /\ lastAuth.at >= lastAuth.before[1].expires_at
    /\ ~lastAuth.answer.ok /\ lastAuth.posts = 1
    /\ lastAuth.result = "AuthError"
    /\ session = lastAuth.before

\* -------------------------------------- claims about concurrent callers
\* The Thread objects that were started.
Spawned == {w \in 1..Len(workers) : workers[w].pc # "new"}

\* C21: when start() is called at the same time from several threads on a
\* session that was never started, never more than one worker is spawned,
\* and once every call has ended exactly one was, the one the handle refers
\* to, and no call has raised.  (The code breaks it: the flag is tested and
\* set in two statements without a lock, so two callers can both pass the
\* test and each spawn a worker, or one can start the other's Thread and
\* leave the other with a RuntimeError.)
C21_ConcurrentStartSpawnsOne ==
    /\ Cardinality(Spawned) <= 1
    /\ \A c \in 1..MaxCallers : callers[c] # "raised"
    /\ (\A c \in 1..MaxCallers : callers[c] = "returned") =>
          (Cardinality(Spawned) = 1 /\ _thread \in Spawned)

====
